---- MODULE Spec2Model ----
(***************************************************************************)
(* State-machine model of the steemgosdk client SDK:                       *)
(*   - the concurrent block fetcher (API.GetBlocks / Client.GetBlocks with *)
(*     one wrapGetBlock goroutine per block and a buffered fan-in channel),*)
(*   - the signed-call path (API.SignedCall, Client.SignedCall),           *)
(*   - the transaction broadcast path (Broadcast.Send, SendWith,           *)
(*     CustomJson, Client.BroadcastRawOps, BroadcastSync),                 *)
(*   - the key table of the Client (ImportWif),                            *)
(*   - the signed envelope from rpc.Sign to rpc.Validate.                  *)
(* Each component has its own specification over the shared variables; the *)
(* variables of the other components stay at their initial values.         *)
(***************************************************************************)
EXTENDS Integers, Sequences, FiniteSets, TLC

VARIABLES
    \* ---- concurrent block fetcher
    mode,       \* which wrapGetBlock is built: "unbounded" (api.go) or "bounded"
    maxRetry,   \* API.maxRetry / Client.MaxRetry
    from,       \* GetBlocks argument
    to,         \* GetBlocks argument
    gbPc,       \* position of the GetBlocks caller
    i,          \* loop variable of GetBlocks
    ch,         \* the buffered result channel (FIFO)
    chCap,      \* its capacity, to-from
    blocksMap,  \* map[uint]*WrapBlock
    blocks,     \* the returned slice
    err,        \* the returned error
    taskPc,     \* position of the wrapGetBlock goroutine of each block
    attempts,   \* GetBlock requests issued so far by each goroutine
    taskErr,    \* err variable of each goroutine (TRUE: non-nil)
    taskBlock,  \* block variable of each goroutine
    recvOrder,  \* history: the block numbers in the order GetBlocks received them
    \* ---- the session: endpoint, clock, key table
    url,         \* Client.Url, the url of every API made from it
    now,         \* wall clock, epoch seconds
    AccountName, \* Client.AccountName
    Wifs,        \* Client.Wifs: key type -> private key
    \* ---- signed calls, one call at a time
    seqNo,      \* API.seqNo of the API instance the caller holds
    calls,      \* history: SignedCall invocations made on that instance
    clientIds,  \* history: request IDs used by the Client's signed calls
    last,       \* history: the last operation and what it did
    \* ---- signed calls, concurrent callers of one API instance
    scPc,       \* position of each concurrent SignedCall
    scTmp,      \* the seqNo value each caller loaded for its increment
    scId,       \* the request ID each caller used
    \* ---- transaction broadcast
    policy,     \* reference block policy of prepareTransaction: "head" or "lib"
    bc,         \* history: the last broadcast operation and what it did
    bcIn,       \* history: the arguments and node answers of that operation
    bc2,        \* history: what a repetition of that operation did
    \* ---- signed envelopes
    val         \* history: an envelope signed and what validating it gave

gbVars == <<mode, maxRetry, from, to, gbPc, i, ch, chCap, blocksMap, blocks,
            err, taskPc, attempts, taskErr, taskBlock, recvOrder>>

sessVars == <<url, now, AccountName, Wifs>>

scVars == <<seqNo, calls, clientIds, last>>

ccVars == <<scPc, scTmp, scId>>

bcVars == <<policy, bc, bcIn, bc2>>

vlVars == <<val>>

vars == <<gbVars, vlVars, sessVars, scVars, ccVars, bcVars>>

(***************************************************************************)
(* Bounds of the model.                                                    *)
(***************************************************************************)
\* block numbers range over 0..MaxBlock
MaxBlock == 3
\* largest maxRetry configured (SetMaxRetry also accepts 0 and negatives)
MaxRetryMax == 2
\* requests of one unbounded retry loop that are counted one by one
MaxAttempts == 2

BlockNums == 0..MaxBlock
RetryChoices == (-1)..MaxRetryMax
Modes == {"unbounded", "bounded"}

\* Go nil values
Nil == [nil |-> "WrapBlock"]
NilBlock == [nil |-> "Block"]
NoErr == "noErr"

RangeOf(f, t) == {b \in BlockNums : f <= b /\ b < t}

\* &WrapBlock{BlockNum: blockNum, Block: block}
WrapBlock(blockNum, block) == [BlockNum |-> blockNum, Block |-> block]

\* the protocolapi.Block the node serves for a block number
BlockOf(blockNum) == [num |-> blockNum]

(***************************************************************************)
(* GetBlocks: the caller.                                                  *)
(***************************************************************************)
\* variant of the parameter check that lets the empty range from = to through
InvalidRangeStrict(f, t) == f > t

\* "if from >= to" of GetBlocks
InvalidRange(f, t) == f >= t

\* variant of the entry of GetBlocks whose channel is one slot short
GetBlocksCallShortChannel(f, t) ==
    /\ UNCHANGED <<sessVars, scVars, ccVars, bcVars, vlVars>>
    /\ gbPc = "idle"
    /\ from' = f
    /\ to' = t
    /\ IF InvalidRange(f, t)
       THEN /\ gbPc' = "returned"
            /\ err' = "unexpected params"
            /\ UNCHANGED <<i, chCap>>
       ELSE /\ gbPc' = "spawn"
            /\ i' = f
            /\ chCap' = t - f - 1
            /\ UNCHANGED err
    /\ UNCHANGED <<mode, maxRetry, ch, blocksMap, blocks, taskPc, attempts,
                   taskErr, taskBlock, recvOrder>>

\* GetBlocks entry: parameter check, then make(chan, to-from) and the maps
GetBlocksCall(f, t) ==
    /\ UNCHANGED <<sessVars, scVars, ccVars, bcVars, vlVars>>
    /\ gbPc = "idle"
    /\ from' = f
    /\ to' = t
    /\ IF InvalidRange(f, t)
       THEN /\ gbPc' = "returned"
            /\ err' = "unexpected params"
            /\ UNCHANGED <<i, chCap>>
       ELSE /\ gbPc' = "spawn"
            /\ i' = f
            /\ chCap' = t - f
            /\ UNCHANGED err
    /\ UNCHANGED <<mode, maxRetry, ch, blocksMap, blocks, taskPc, attempts,
                   taskErr, taskBlock, recvOrder>>

\* "for i := from; i < to; i++ { go a.wrapGetBlock(i, ch) }"
SpawnLoop ==
    /\ UNCHANGED <<sessVars, scVars, ccVars, bcVars, vlVars>>
    /\ gbPc = "spawn"
    /\ IF i < to
       THEN /\ taskPc' = [taskPc EXCEPT ![i] = "loop"]
            /\ i' = i + 1
            /\ UNCHANGED gbPc
       ELSE /\ gbPc' = "recv"
            /\ i' = from
            /\ UNCHANGED taskPc
    /\ UNCHANGED <<mode, maxRetry, from, to, ch, chCap, blocksMap, blocks, err,
                   attempts, taskErr, taskBlock, recvOrder>>

\* "result := <-ch; blocksMap[result.BlockNum] = result; if ... == nil"
\* result.BlockNum on a nil *WrapBlock is a nil-pointer dereference: the
\* runtime panics before the nil check of the next line is reached.
RecvLoop ==
    /\ UNCHANGED <<sessVars, scVars, ccVars, bcVars, vlVars>>
    /\ gbPc = "recv"
    /\ IF i < to
       THEN /\ ch # <<>>
            /\ LET result == Head(ch) IN
               /\ ch' = Tail(ch)
               /\ IF result = Nil
                  THEN /\ gbPc' = "panicked"
                       /\ UNCHANGED <<blocksMap, i, err, recvOrder>>
                  ELSE /\ blocksMap' = [blocksMap EXCEPT ![result.BlockNum] = result]
                       /\ recvOrder' = Append(recvOrder, result.BlockNum)
                       /\ IF blocksMap'[result.BlockNum] = Nil
                          THEN /\ gbPc' = "returned"
                               /\ err' = "get block error"
                               /\ UNCHANGED i
                          ELSE /\ i' = i + 1
                               /\ UNCHANGED <<gbPc, err>>
       ELSE /\ gbPc' = "sort"
            /\ i' = from
            /\ UNCHANGED <<ch, blocksMap, err, recvOrder>>
    /\ UNCHANGED <<mode, maxRetry, from, to, chCap, blocks, taskPc, attempts,
                   taskErr, taskBlock>>

\* variant of the final loop that emits the results in arrival order instead
\* of reassembling them by block number
SortLoopArrival ==
    /\ UNCHANGED <<sessVars, scVars, ccVars, bcVars, vlVars>>
    /\ gbPc = "sort"
    /\ IF i < to
       THEN /\ blocks' = Append(blocks, blocksMap[recvOrder[i - from + 1]])
            /\ i' = i + 1
            /\ UNCHANGED gbPc
       ELSE /\ gbPc' = "returned"
            /\ UNCHANGED <<blocks, i>>
    /\ UNCHANGED <<mode, maxRetry, from, to, ch, chCap, blocksMap, err, taskPc,
                   attempts, taskErr, taskBlock, recvOrder>>

\* "for i := from; i < to; i++ { blocks = append(blocks, blocksMap[i]) }"
SortLoop ==
    /\ UNCHANGED <<sessVars, scVars, ccVars, bcVars, vlVars>>
    /\ gbPc = "sort"
    /\ IF i < to
       THEN /\ blocks' = Append(blocks, blocksMap[i])
            /\ i' = i + 1
            /\ UNCHANGED gbPc
       ELSE /\ gbPc' = "returned"
            /\ UNCHANGED <<blocks, i>>
    /\ UNCHANGED <<mode, maxRetry, from, to, ch, chCap, blocksMap, err, taskPc,
                   attempts, taskErr, taskBlock, recvOrder>>

(***************************************************************************)
(* wrapGetBlock: one goroutine per block.                                  *)
(***************************************************************************)
\* loop condition: "for {" (unbounded) or "for i := 0; i < maxRetry; i++"
LoopContinues(b) ==
    IF mode = "bounded" THEN attempts[b] < maxRetry ELSE TRUE

\* the request count after one more request. The unbounded loop "for {" may
\* go round without end: past MaxAttempts requests the count is followed only
\* as "MaxAttempts or more", alternating between MaxAttempts and
\* MaxAttempts + 1 so that every further request is still a step.
CountRequest(n) ==
    IF mode = "unbounded" /\ n > MaxAttempts THEN MaxAttempts ELSE n + 1

\* variant of the request step that leaves the loop after the request
\* whatever its outcome
TaskAttemptNoRetry(b) ==
    /\ UNCHANGED <<sessVars, scVars, ccVars, bcVars, vlVars>>
    /\ taskPc[b] = "loop"
    /\ LoopContinues(b)
    /\ \E ok \in BOOLEAN :
        /\ attempts' = [attempts EXCEPT ![b] = CountRequest(@)]
        /\ taskErr' = [taskErr EXCEPT ![b] = ~ok]
        /\ taskBlock' = [taskBlock EXCEPT ![b] = IF ok THEN BlockOf(b) ELSE @]
        /\ taskPc' = [taskPc EXCEPT ![b] = "send"]
    /\ UNCHANGED <<mode, maxRetry, from, to, gbPc, i, ch, chCap, blocksMap,
                   blocks, err, recvOrder>>

\* one a.GetBlock(blockNum) request and the test "if err == nil { break }"
TaskAttempt(b) ==
    /\ UNCHANGED <<sessVars, scVars, ccVars, bcVars, vlVars>>
    /\ taskPc[b] = "loop"
    /\ LoopContinues(b)
    /\ \E ok \in BOOLEAN :
        /\ attempts' = [attempts EXCEPT ![b] = CountRequest(@)]
        /\ IF ok
           THEN /\ taskErr' = [taskErr EXCEPT ![b] = FALSE]
                /\ taskBlock' = [taskBlock EXCEPT ![b] = BlockOf(b)]
                /\ taskPc' = [taskPc EXCEPT ![b] = "send"]
           ELSE /\ taskErr' = [taskErr EXCEPT ![b] = TRUE]
                /\ UNCHANGED <<taskBlock, taskPc>>
    /\ UNCHANGED <<mode, maxRetry, from, to, gbPc, i, ch, chCap, blocksMap,
                   blocks, err, recvOrder>>

\* the bounded loop runs out: i reached maxRetry
TaskLoopExit(b) ==
    /\ UNCHANGED <<sessVars, scVars, ccVars, bcVars, vlVars>>
    /\ taskPc[b] = "loop"
    /\ ~LoopContinues(b)
    /\ taskPc' = [taskPc EXCEPT ![b] = "send"]
    /\ UNCHANGED <<mode, maxRetry, from, to, gbPc, i, ch, chCap, blocksMap,
                   blocks, err, attempts, taskErr, taskBlock, recvOrder>>

\* what the goroutine puts on the channel: "ch <- nil" on error (bounded
\* variant only), "ch <- &WrapBlock{...}" otherwise
TaskMessage(b) ==
    IF mode = "bounded" /\ taskErr[b] THEN Nil
    ELSE WrapBlock(b, taskBlock[b])

\* the channel send; it blocks while the buffer is full
TaskSend(b) ==
    /\ UNCHANGED <<sessVars, scVars, ccVars, bcVars, vlVars>>
    /\ taskPc[b] = "send"
    /\ Len(ch) < chCap
    /\ ch' = Append(ch, TaskMessage(b))
    /\ taskPc' = [taskPc EXCEPT ![b] = "done"]
    /\ UNCHANGED <<mode, maxRetry, from, to, gbPc, i, chCap, blocksMap, blocks,
                   err, attempts, taskErr, taskBlock, recvOrder>>

(***************************************************************************)
(* The session: endpoint, clock, keys.                                     *)
(***************************************************************************)
\* signed calls made on one API instance, or through one Client
MaxCalls == 3
\* the clock runs over 0..MaxTime
MaxTime == 2
\* parameter lists hold at most MaxParams values
MaxParams == 2

\* default of NewAPI and GetClient
DefaultMaxRetry == 5

\* endpoints a Client can be given
Urls == {"http://api.steemit.com", "https://api.steemit.com",
         "ws://api.steemit.com", "wss://api.steemit.com",
         "ftp://api.steemit.com", "http:/", ""}

\* strings.HasPrefix
HasPrefix(s, prefix) ==
    Len(s) >= Len(prefix) /\ SubSeq(s, 1, Len(prefix)) = prefix

\* consts.OWNER_KEY, ACTIVE_KEY, POSTING_KEY, MEMO_KEY
KeyTypes == {"owner", "active", "posting", "memo"}
\* key types a caller may pass
KeyTypeInputs == KeyTypes \cup {"admin"}
\* key types imported in the client session
ImportKeyTypes == {"active", "posting", "admin"}

\* variant of checkKeyType that lets every role through
checkKeyTypeAny(keyType) == TRUE

\* checkKeyType
checkKeyType(keyType) ==
    IF keyType = "active" THEN TRUE
    ELSE IF keyType = "posting" THEN TRUE
    ELSE IF keyType = "owner" THEN TRUE
    ELSE IF keyType = "memo" THEN TRUE
    ELSE FALSE

\* private keys (wif.PrivateKey) and their WIF texts
PrivateKeys == {"keyA", "keyB"}
NoKey == "noKey"
WifInputs == {"5JwifA", "5JwifB", "invalid-key"}

\* wif.PrivateKey.FromWif: decodes a WIF text, fails on any other text
FromWif(privWif) ==
    IF privWif = "5JwifA" THEN [err |-> FALSE, priv |-> "keyA"]
    ELSE IF privWif = "5JwifB" THEN [err |-> FALSE, priv |-> "keyB"]
    ELSE [err |-> TRUE, priv |-> NoKey]

\* wif.PrivateKey.ToWif
ToWif(priv) ==
    IF priv = "keyA" THEN "5JwifA"
    ELSE IF priv = "keyB" THEN "5JwifB"
    ELSE "invalid-key"

AccountNames == {"", "alice"}
Nonces == {"n1", "n2"}
Methods == {"condenser_api.get_accounts"}
ParamValues == {"p", "q"}
ParamLists == UNION {[1..n -> ParamValues] : n \in 0..MaxParams}

\* what BuildSendData and the node can answer to one request
BuildOutcomes == {"ok", "build_error"}
NodeOutcomes == {"ok", "transport_error", "rpc_error"}

\* the role and WIF arguments of an operation
Arg(keyType, privWif) == [keyType |-> keyType, privWif |-> privWif]
NoArg == Arg("", "")

\* the record kept of the last operation
NoId == 0
NoWire == <<>>
Outcome(op, apiCalled, params, e, id, signs, sends, wire, arg, wifParses) ==
    [op |-> op, apiCalled |-> apiCalled, params |-> params, err |-> e,
     id |-> id, signs |-> signs, sends |-> sends, wire |-> wire,
     arg |-> arg, wifParses |-> wifParses]

NoOutcome == Outcome("none", FALSE, <<>>, NoErr, NoId, 0, 0, NoWire, NoArg, 0)

\* time passes
Tick ==
    /\ now < MaxTime
    /\ now' = now + 1
    /\ UNCHANGED <<url, AccountName, Wifs, gbVars, vlVars, scVars, ccVars, bcVars>>

\* variant of ImportWif that parses the WIF before it looks at the role
ImportWifParseFirst(keyType, privWif) ==
    /\ LET priv == FromWif(privWif) IN
       IF priv.err
       THEN /\ last' = Outcome("ImportWif", FALSE, <<>>, "invalid wif", NoId, 0, 0,
                               NoWire, Arg(keyType, privWif), 1)
            /\ UNCHANGED Wifs
       ELSE IF ~checkKeyType(keyType)
       THEN /\ last' = Outcome("ImportWif", FALSE, <<>>,
                               "unexpected keyType when import wif", NoId, 0, 0,
                               NoWire, Arg(keyType, privWif), 1)
            /\ UNCHANGED Wifs
       ELSE /\ Wifs' = [Wifs EXCEPT ![keyType] = priv.priv]
            /\ last' = Outcome("ImportWif", FALSE, <<>>, NoErr, NoId, 0, 0, NoWire,
                               Arg(keyType, privWif), 1)
    /\ UNCHANGED <<url, now, AccountName, seqNo, calls, clientIds, gbVars, vlVars, ccVars, bcVars>>

\* Client.ImportWif
ImportWif(keyType, privWif) ==
    /\ IF ~checkKeyType(keyType)
       THEN /\ last' = Outcome("ImportWif", FALSE, <<>>,
                               "unexpected keyType when import wif", NoId, 0, 0,
                               NoWire, Arg(keyType, privWif), 0)
            /\ UNCHANGED Wifs
       ELSE LET priv == FromWif(privWif) IN
            IF priv.err
            THEN /\ last' = Outcome("ImportWif", FALSE, <<>>, "invalid wif",
                                    NoId, 0, 0, NoWire, Arg(keyType, privWif), 1)
                 /\ UNCHANGED Wifs
            ELSE /\ Wifs' = [Wifs EXCEPT ![keyType] = priv.priv]
                 /\ last' = Outcome("ImportWif", FALSE, <<>>, NoErr, NoId, 0, 0,
                                    NoWire, Arg(keyType, privWif), 1)
    /\ UNCHANGED <<url, now, AccountName, seqNo, calls, clientIds, gbVars, vlVars, ccVars, bcVars>>

(***************************************************************************)
(* Signed calls: API.SignedCall and Client.SignedCall.                     *)
(***************************************************************************)
ErrTransport == "signed calls can only be made when using HTTP transport"

\* variant of the transport check that accepts only https
validateTransportHttpsOnly(u) ==
    IF ~HasPrefix(u, "https://") THEN ErrTransport ELSE NoErr

\* API.validateTransportForSignedCall
validateTransportForSignedCall(u) ==
    IF ~HasPrefix(u, "http://") /\ ~HasPrefix(u, "https://")
    THEN ErrTransport
    ELSE NoErr

\* variant of the increment that leaves the counter where it was
SeqNoNotIncremented(seq) == seq

\* "a.seqNo++"
IncrementSeqNo(seq) == seq + 1

\* variant of Sign that makes the request ID part of the signed message
SignWithId(request, account, privateKeys, t, nonce) ==
    IF \E k \in DOMAIN privateKeys : FromWif(privateKeys[k]).err
    THEN [err |-> TRUE, Signed |-> [account |-> account]]
    ELSE [err |-> FALSE,
          Signed |-> [account |-> account,
                      params |-> [encoded |-> request.Params],
                      timestamp |-> t,
                      nonce |-> nonce,
                      signatures |->
                          [k \in DOMAIN privateKeys |->
                              [by |-> FromWif(privateKeys[k]).priv,
                               over |-> <<request.Method, request.Params,
                                          account, t, nonce, request.ID>>]]]]

\* rpc.Sign of steemutil: stamps the time and a nonce, signs the message of
\* method, params, account, timestamp and nonce with each key in order; the
\* request ID is not part of the signed message.  Fails on an undecodable key.
Sign(request, account, privateKeys, t, nonce) ==
    IF \E k \in DOMAIN privateKeys : FromWif(privateKeys[k]).err
    THEN [err |-> TRUE, Signed |-> [account |-> account]]
    ELSE [err |-> FALSE,
          Signed |-> [account |-> account,
                      params |-> [encoded |-> request.Params],
                      timestamp |-> t,
                      nonce |-> nonce,
                      signatures |->
                          [k \in DOMAIN privateKeys |->
                              [by |-> FromWif(privateKeys[k]).priv,
                               over |-> <<request.Method, request.Params,
                                          account, t, nonce>>]]]]

\* variant of the wire list that keeps the caller's params in front of the
\* signed object
SignedWireParamsAppended(params, signed) ==
    Append(params, [k \in {"__signed"} |-> signed])

\* "[]interface{}{signedParams}" with signedParams = {"__signed": Signed}
SignedWireParams(params, signed) ==
    <<[k \in {"__signed"} |-> signed]>>

\* variant of SignedCall that builds and sends the request whether or not
\* signing succeeded
SignedCallSendsUnsigned(u, seq, method, params, account, privateKey, t, nonce, build, node) ==
    IF validateTransportForSignedCall(u) # NoErr
    THEN [seqNo |-> seq,
          out |-> Outcome("SignedCall", TRUE, params, ErrTransport, NoId, 0, 0,
                          NoWire, Arg("", privateKey), 0)]
    ELSE
      LET seq1 == IncrementSeqNo(seq)
          request == [Method |-> method, Params |-> params, ID |-> seq1]
          signedRequest == Sign(request, account, <<privateKey>>, t, nonce)
          wire == SignedWireParams(params, signedRequest.Signed)
          e == IF build = "build_error" THEN "failed to build signed RPC data"
               ELSE IF node = "transport_error" THEN "failed to send signed RPC request"
               ELSE IF node = "rpc_error" THEN "signed RPC error"
               ELSE NoErr
          sent == build = "ok"
      IN [seqNo |-> seq1,
          out |-> Outcome("SignedCall", TRUE, params, e, request.ID, 1,
                          IF sent THEN 1 ELSE 0,
                          IF sent THEN wire ELSE NoWire, Arg("", privateKey), 0)]

\* API.SignedCall on an API with the given url and seqNo: the new seqNo and
\* the outcome of the call
SignedCall(u, seq, method, params, account, privateKey, t, nonce, build, node) ==
    IF validateTransportForSignedCall(u) # NoErr
    THEN [seqNo |-> seq,
          out |-> Outcome("SignedCall", TRUE, params, ErrTransport, NoId, 0, 0,
                          NoWire, Arg("", privateKey), 0)]
    ELSE
      LET seq1 == IncrementSeqNo(seq)
          request == [Method |-> method, Params |-> params, ID |-> seq1]
          signedRequest == Sign(request, account, <<privateKey>>, t, nonce)
          wire == SignedWireParams(params, signedRequest.Signed)
          e == IF signedRequest.err THEN "failed to sign request"
               ELSE IF build = "build_error" THEN "failed to build signed RPC data"
               ELSE IF node = "transport_error" THEN "failed to send signed RPC request"
               ELSE IF node = "rpc_error" THEN "signed RPC error"
               ELSE NoErr
          sent == ~signedRequest.err /\ build = "ok"
      IN [seqNo |-> seq1,
          out |-> Outcome("SignedCall", TRUE, params, e, request.ID, 1,
                          IF sent THEN 1 ELSE 0,
                          IF sent THEN wire ELSE NoWire, Arg("", privateKey), 0)]

\* api.SignedCall(...) on the API instance the caller holds
ApiSignedCall(method, params, account, privateKey, nonce, build, node) ==
    /\ calls < MaxCalls
    /\ LET r == SignedCall(url, seqNo, method, params, account, privateKey,
                           now, nonce, build, node) IN
        /\ seqNo' = r.seqNo
        /\ last' = r.out
    /\ calls' = calls + 1
    /\ UNCHANGED <<clientIds, sessVars, gbVars, vlVars, ccVars, bcVars>>

\* NewAPI: the sequence number of a new API instance
NewAPISeqNo == 0

\* variant of the key lookup that takes the active key whatever the role
StoredKeyActive(wifs, keyType) == wifs["active"]

\* "privateKey, exists := c.Wifs[keyType]"
StoredKey(wifs, keyType) == wifs[keyType]

\* Client.SignedCall (Client.SignedCallWithResult makes the same call)
ClientSignedCall(method, params, keyType, nonce, build, node) ==
    /\ Len(clientIds) < MaxCalls
    /\ IF AccountName = ""
       THEN /\ last' = Outcome("Client.SignedCall", FALSE, params,
                               "account name not set", NoId, 0, 0, NoWire,
                               Arg(keyType, ""), 0)
            /\ UNCHANGED clientIds
       ELSE IF ~checkKeyType(keyType)
       THEN /\ last' = Outcome("Client.SignedCall", FALSE, params,
                               "invalid key type: " \o keyType, NoId, 0, 0,
                               NoWire, Arg(keyType, ""), 0)
            /\ UNCHANGED clientIds
       ELSE IF StoredKey(Wifs, keyType) = NoKey
       THEN /\ last' = Outcome("Client.SignedCall", FALSE, params,
                               "private key for type '" \o keyType \o "' not found",
                               NoId, 0, 0, NoWire, Arg(keyType, ""), 0)
            /\ UNCHANGED clientIds
       ELSE LET privateKeyWif == ToWif(StoredKey(Wifs, keyType))
                \* api := c.GetAPI()
                r == SignedCall(url, NewAPISeqNo, method, params, AccountName,
                                privateKeyWif, now, nonce, build, node)
            IN /\ last' = [r.out EXCEPT !.op = "Client.SignedCall",
                                        !.arg = Arg(keyType, privateKeyWif)]
               /\ clientIds' = IF r.out.id # NoId
                               THEN Append(clientIds, r.out.id)
                               ELSE clientIds
    /\ UNCHANGED <<seqNo, calls, sessVars, gbVars, vlVars, ccVars, bcVars>>
(***************************************************************************)
(* Concurrent SignedCall invocations on one API instance.  "a.seqNo++" is  *)
(* a plain read-modify-write of the field, with no lock and no atomic: the *)
(* load and the store of each caller interleave with those of the others.  *)
(***************************************************************************)
\* goroutines calling SignedCall on the same API
NumCallers == 3

Callers == 1..NumCallers

\* the transport check at the head of SignedCall
CallerStart(p) ==
    /\ scPc[p] = "start"
    /\ scPc' = [scPc EXCEPT ![p] =
                   IF validateTransportForSignedCall(url) # NoErr
                   THEN "failed" ELSE "load"]
    /\ UNCHANGED <<scTmp, scId, seqNo, calls, clientIds, last, sessVars, gbVars, vlVars,
                   bcVars>>

\* "a.seqNo++", the read
CallerLoad(p) ==
    /\ scPc[p] = "load"
    /\ scTmp' = [scTmp EXCEPT ![p] = seqNo]
    /\ scPc' = [scPc EXCEPT ![p] = "store"]
    /\ UNCHANGED <<scId, seqNo, calls, clientIds, last, sessVars, gbVars, vlVars, bcVars>>

\* "a.seqNo++", the write
CallerStore(p) ==
    /\ scPc[p] = "store"
    /\ seqNo' = IncrementSeqNo(scTmp[p])
    /\ scPc' = [scPc EXCEPT ![p] = "request"]
    /\ UNCHANGED <<scTmp, scId, calls, clientIds, last, sessVars, gbVars, vlVars, bcVars>>

\* "ID: a.seqNo", a second read of the field
CallerRequest(p) ==
    /\ scPc[p] = "request"
    /\ scId' = [scId EXCEPT ![p] = seqNo]
    /\ scPc' = [scPc EXCEPT ![p] = "send"]
    /\ UNCHANGED <<scTmp, seqNo, calls, clientIds, last, sessVars, gbVars, vlVars, bcVars>>

\* sign, build, send: no shared state is touched; the call ends either way
CallerFinish(p) ==
    /\ scPc[p] = "send"
    /\ \E e \in {"ok", "error"} :
        scPc' = [scPc EXCEPT ![p] = IF e = "ok" THEN "done" ELSE "failed"]
    /\ UNCHANGED <<scTmp, scId, seqNo, calls, clientIds, last, sessVars, gbVars, vlVars,
                   bcVars>>

(***************************************************************************)
(* Transactions: prepareTransaction, Send, SendWith, CustomJson,           *)
(* Client.BroadcastRawOps and BroadcastSync.                               *)
(***************************************************************************)
\* operation lists hold at most MaxOps operations
MaxOps == 2
\* authority lists of custom_json hold at most MaxAuths accounts
MaxAuths == 2

\* "600 * time.Second"
ExpirationWindow == 600

Policies == {"head", "lib"}

\* protocol.Operation values a caller builds
Operations == {[type |-> "vote"], [type |-> "transfer"]}
OpLists == UNION {[1..n -> Operations] : n \in 0..MaxOps}

\* the privKeys map of Send: name -> WIF text
KeyNames == {"active", "posting"}
KeyMaps == UNION {[names -> WifInputs] : names \in SUBSET KeyNames}

\* the orders in which "range privKeys" can visit the entries of the map
RangeOrders(m) ==
    {o \in [1..Cardinality(DOMAIN m) -> DOMAIN m] :
        \A j, k \in DOMAIN o : j # k => o[j] # o[k]}

\* protocol.Time values
Unset == [kind |-> "unset"]
TimeValue(t) == [kind |-> "time", t |-> t]
\* whatever the transaction library fills in for an expiration left unset
LibraryDefault == [kind |-> "library default"]

\* block ids
BlockId(n) == [idOf |-> n]
EmptyId == [empty |-> TRUE]
ZeroId == [zeros |-> 40]

\* condenser_api.get_dynamic_global_properties: what the node can answer
HeadNumbers == {3, 65537}
LibNumbers == {0, 1, 2, 65536}
DgpResults ==
    {[err |-> TRUE, HeadBlockNumber |-> 0, HeadBlockId |-> EmptyId,
      LastIrreversibleBlockNum |-> 0]}
    \cup {r \in [err : {FALSE}, HeadBlockNumber : HeadNumbers,
                  HeadBlockId : {BlockId(h) : h \in HeadNumbers},
                  LastIrreversibleBlockNum : LibNumbers] :
             /\ r.HeadBlockId = BlockId(r.HeadBlockNumber)
             /\ r.LastIrreversibleBlockNum <= r.HeadBlockNumber}

\* condenser_api.get_block: an error, the block, or an empty answer
BlockResults == {"ok", "error", "empty"}

\* API.GetBlock(blockNum) under the given answer
GetBlock(blockNum, blockRes) ==
    IF blockRes = "error" THEN [err |-> TRUE, Previous |-> EmptyId]
    ELSE IF blockRes = "empty" \/ blockNum = 0 THEN [err |-> FALSE, Previous |-> EmptyId]
    ELSE [err |-> FALSE, Previous |-> BlockId(blockNum - 1)]

\* transaction.RefBlockNum: the conversion to uint16
RefBlockNum(blockNumber) == blockNumber % 65536

\* transaction.RefBlockPrefix: four bytes of the decoded id, little endian;
\* an id too short to decode is an error
RefBlockPrefix(blockId) ==
    IF blockId = EmptyId THEN [err |-> TRUE, prefix |-> [le32 |-> EmptyId]]
    ELSE [err |-> FALSE, prefix |-> [le32 |-> blockId]]

\* errors.Wrap(err, message): "message: cause"
Wrap(e, message) == message \o ": " \o e

\* variant of the loop that puts each operation in front of the earlier ones
RECURSIVE PushOperationsInFront(_, _)
PushOperationsInFront(txOps, ops) ==
    IF ops = <<>> THEN txOps
    ELSE PushOperationsInFront(<<Head(ops)>> \o txOps, Tail(ops))

\* "for _, op := range ops { tx.PushOperation(op) }"
RECURSIVE PushOperations(_, _)
PushOperations(txOps, ops) ==
    IF ops = <<>> THEN txOps
    ELSE PushOperations(Append(txOps, Head(ops)), Tail(ops))

NoTx == [none |-> TRUE]

\* transaction.NewSignedTransaction(&transaction.Transaction{...})
NewSignedTransaction(refBlockNum, refBlockPrefix, expiration) ==
    [RefBlockNum |-> refBlockNum, RefBlockPrefix |-> refBlockPrefix,
     Expiration |-> expiration, Operations |-> <<>>, Signatures |-> <<>>]

\* the result of prepareTransaction
Prepared(e, tx, dgpFetches, blockFetches) ==
    [err |-> e, tx |-> tx, dgpFetches |-> dgpFetches, blockFetches |-> blockFetches]

\* variant of the expiration that leaves it unset
ExpirationUnset(t) == Unset

\* "expiration := time.Now().Add(600 * time.Second)"
ExpirationOf(t) == TimeValue(t + ExpirationWindow)

\* variant of prepareTransaction that looks at the operation list only after
\* the chain properties are fetched
prepareTransactionHeadFetchFirst(ops, dgp, t) ==
    IF dgp.err
    THEN Prepared("failed to get dynamic global properties", NoTx, 1, 0)
    ELSE IF Len(ops) = 0 THEN Prepared("no operations provided", NoTx, 1, 0)
    ELSE
      LET refBlockPrefix == RefBlockPrefix(dgp.HeadBlockId) IN
      IF refBlockPrefix.err
      THEN Prepared("failed to calculate ref_block_prefix", NoTx, 1, 0)
      ELSE LET tx == NewSignedTransaction(RefBlockNum(dgp.HeadBlockNumber),
                                          refBlockPrefix.prefix, ExpirationOf(t))
           IN Prepared(NoErr, [tx EXCEPT !.Operations = PushOperations(@, ops)],
                       1, 0)

\* Broadcast.prepareTransaction, head policy (broadcast.go)
prepareTransactionHead(ops, dgp, t) ==
    IF Len(ops) = 0 THEN Prepared("no operations provided", NoTx, 0, 0)
    ELSE IF dgp.err
    THEN Prepared("failed to get dynamic global properties", NoTx, 1, 0)
    ELSE
      LET refBlockNum == RefBlockNum(dgp.HeadBlockNumber)
          refBlockPrefix == RefBlockPrefix(dgp.HeadBlockId)
      IN IF refBlockPrefix.err
         THEN Prepared("failed to calculate ref_block_prefix", NoTx, 1, 0)
         ELSE LET tx == NewSignedTransaction(refBlockNum, refBlockPrefix.prefix,
                                             ExpirationOf(t))
              IN Prepared(NoErr,
                          [tx EXCEPT !.Operations = PushOperations(@, ops)], 1, 0)

\* Broadcast.prepareTransaction, last-irreversible policy
prepareTransactionLib(ops, dgp, blockRes, t) ==
    IF Len(ops) = 0 THEN Prepared("no operations provided", NoTx, 0, 0)
    ELSE IF dgp.err
    THEN Prepared("failed to get dynamic global properties", NoTx, 1, 0)
    ELSE
      LET \* uint32 arithmetic: LastIrreversibleBlockNum - 1 wraps at 0 to
          \* 2^32 - 1; 2^16 divides 2^32, so the uint16 of the wrapped
          \* difference is the difference modulo 2^16
          refBlockNum == (dgp.LastIrreversibleBlockNum - 1) % 65536
          block == GetBlock(dgp.LastIrreversibleBlockNum, blockRes)
      IN IF block.err
         THEN Prepared("failed to get block for ref_block_prefix calculation",
                       NoTx, 1, 1)
         ELSE
           LET previousBlockId ==
                   IF block.Previous = EmptyId THEN ZeroId ELSE block.Previous
               refBlockPrefix == RefBlockPrefix(previousBlockId)
           IN IF refBlockPrefix.err
              THEN Prepared("failed to calculate ref_block_prefix", NoTx, 1, 1)
              ELSE LET tx == NewSignedTransaction(refBlockNum, refBlockPrefix.prefix,
                                                  ExpirationOf(t))
                   IN Prepared(NoErr,
                               [tx EXCEPT !.Operations = PushOperations(@, ops)],
                               1, 1)

\* Broadcast.prepareTransaction of the build in use
prepareTransaction(pol, ops, dgp, blockRes, t) ==
    IF pol = "head" THEN prepareTransactionHead(ops, dgp, t)
    ELSE prepareTransactionLib(ops, dgp, blockRes, t)

\* the digest the signatures are made over: chain id and transaction body
Digest(tx) ==
    [chain |-> "SteemChain", RefBlockNum |-> tx.RefBlockNum,
     RefBlockPrefix |-> tx.RefBlockPrefix, Expiration |-> tx.Expiration,
     Operations |-> tx.Operations]

SignOutcomes == {"ok", "sign_error"}

\* variant of tx.Sign whose failure goes unnoticed: the transaction comes
\* back as it was and no error is reported
TxSignErrorDropped(tx, privKeys, signRes) ==
    [err |-> FALSE,
     tx |-> IF signRes = "sign_error" THEN tx
            ELSE [tx EXCEPT !.Signatures =
                     @ \o [k \in 1..Len(privKeys) |->
                              [by |-> privKeys[k], digest |-> Digest(tx)]]]]

\* tx.Sign(privKeys, transaction.SteemChain): one signature per key, in the
\* order of the keys
TxSign(tx, privKeys, signRes) ==
    IF signRes = "sign_error" THEN [err |-> TRUE, tx |-> tx]
    ELSE [err |-> FALSE,
          tx |-> [tx EXCEPT !.Signatures =
                     @ \o [k \in 1..Len(privKeys) |->
                              [by |-> privKeys[k], digest |-> Digest(tx)]]]]

\* variant of BroadcastSync that sends the request again after a transport
\* error
BroadcastSyncResend(build, node) ==
    IF build = "build_error" THEN [requests |-> 0, err |-> "build"]
    ELSE IF node = "transport_error" THEN [requests |-> 2, err |-> "send"]
    ELSE IF node = "rpc_error" THEN [requests |-> 1, err |-> "failed to broadcast"]
    ELSE [requests |-> 1, err |-> NoErr]

\* BroadcastSync: BuildSendData, one Send, the node's error, the result
BroadcastSync(build, node) ==
    IF build = "build_error" THEN [requests |-> 0, err |-> "build"]
    ELSE IF node = "transport_error" THEN [requests |-> 1, err |-> "send"]
    ELSE IF node = "rpc_error" THEN [requests |-> 1, err |-> "failed to broadcast"]
    ELSE [requests |-> 1, err |-> NoErr]

\* what an operation did on the way: chain-property fetches, block fetches,
\* WIF decodings, calls of tx.Sign
Effects(dgpFetches, blockFetches, decodes, signs) ==
    [dgpFetches |-> dgpFetches, blockFetches |-> blockFetches,
     decodes |-> decodes, signs |-> signs]

\* the record kept of a broadcast operation
BcOutcome(op, e, signedTx, sentTx, requests, at, fx) ==
    [op |-> op, err |-> e, signedTx |-> signedTx, sentTx |-> sentTx,
     requests |-> requests, assembledAt |-> at, fx |-> fx]

NoBroadcast == BcOutcome("none", NoErr, NoTx, NoTx, 0, 0, Effects(0, 0, 0, 0))

\* the arguments of a broadcast operation and the answers it was given
BcInput(ops, keys, dgp, blockRes, signRes, build, node) ==
    [ops |-> ops, keys |-> keys, dgp |-> dgp, blockRes |-> blockRes,
     signRes |-> signRes, build |-> build, node |-> node]

NoAnswer == [none |-> TRUE]

NoInput == BcInput(<<>>, <<>>, NoAnswer, NoAnswer, NoAnswer, NoAnswer, NoAnswer)

\* the WIF texts of the map in the order the range loop visits them, up to
\* and including the first that does not decode
RECURSIVE DecodeKeys(_, _, _, _)
DecodeKeys(privKeys, order, objs, decodes) ==
    IF order = <<>> THEN [err |-> FALSE, objs |-> objs, decodes |-> decodes]
    ELSE LET privKey == FromWif(privKeys[Head(order)]) IN
         IF privKey.err THEN [err |-> TRUE, objs |-> objs, decodes |-> decodes + 1]
         ELSE DecodeKeys(privKeys, Tail(order), Append(objs, privKey.priv),
                         decodes + 1)

\* Broadcast.Send: prepare, decode the keys, sign, broadcast
Send(op, ops, privKeys, order, dgp, blockRes, signRes, build, node, t) ==
    LET prep == prepareTransaction(policy, ops, dgp, blockRes, t) IN
    IF prep.err # NoErr
    THEN BcOutcome(op, Wrap(prep.err, "failed to prepare transaction"), NoTx,
                   NoTx, 0, t,
                   Effects(prep.dgpFetches, prep.blockFetches, 0, 0))
    ELSE
      LET keys == DecodeKeys(privKeys, order, <<>>, 0) IN
      IF keys.err
      THEN BcOutcome(op, "failed to decode WIF", NoTx, NoTx, 0, t,
                     Effects(prep.dgpFetches, prep.blockFetches, keys.decodes, 0))
      ELSE
        LET signed == TxSign(prep.tx, keys.objs, signRes)
            fx == Effects(prep.dgpFetches, prep.blockFetches, keys.decodes, 1)
        IN
        IF signed.err
        THEN BcOutcome(op, "failed to sign transaction", prep.tx, NoTx, 0, t, fx)
        ELSE
          LET result == BroadcastSync(build, node) IN
          BcOutcome(op,
                    IF result.err # NoErr THEN "failed to broadcast transaction"
                    ELSE NoErr,
                    prep.tx,
                    IF result.requests > 0 THEN signed.tx ELSE NoTx,
                    result.requests, t, fx)

\* a caller's Broadcast.Send
SendCall(ops, privKeys, order, dgp, blockRes, signRes, build, node) ==
    /\ bc.op = "none"
    /\ bc' = Send("Send", ops, privKeys, order, dgp, blockRes, signRes, build,
                  node, now)
    /\ bcIn' = BcInput(ops, privKeys, dgp, blockRes, signRes, build, node)
    /\ UNCHANGED <<policy, bc2, sessVars, gbVars, vlVars, scVars, ccVars>>

\* the same Send made a second time: same operations, same key map, same
\* answers from the node; the range loop over the map takes an order of its own
SendAgainCall(order) ==
    /\ bc.op = "Send"
    /\ bc2.op = "none"
    /\ bc2' = Send("Send", bcIn.ops, bcIn.keys, order, bcIn.dgp, bcIn.blockRes,
                   bcIn.signRes, bcIn.build, bcIn.node, now)
    /\ UNCHANGED <<policy, bc, bcIn, sessVars, gbVars, vlVars, scVars, ccVars>>

\* Broadcast.SendWith: Send of one operation with the map {"key": wif}
SendWithCall(operation, privKeyWif, dgp, blockRes, signRes, build, node) ==
    /\ bc.op = "none"
    /\ LET privKeys == [k \in {"key"} |-> privKeyWif] IN
        /\ bc' = Send("SendWith", <<operation>>, privKeys, <<"key">>, dgp,
                      blockRes, signRes, build, node, now)
        /\ bcIn' = BcInput(<<operation>>, privKeys, dgp, blockRes, signRes, build,
                           node)
    /\ UNCHANGED <<policy, bc2, sessVars, gbVars, vlVars, scVars, ccVars>>

\* accounts named in authority lists, and their order as strings
Accounts == {"alice", "bob"}
AuthLists == UNION {[1..n -> Accounts] : n \in 0..MaxAuths}
StringLess(a, b) == a = "alice" /\ b = "bob"

\* variant of the sort that keeps one of several equal names, as a set would
RECURSIVE InsertSortedUnique(_, _)
InsertSortedUnique(sorted, x) ==
    IF sorted = <<>> THEN <<x>>
    ELSE IF x = Head(sorted) THEN sorted
    ELSE IF StringLess(x, Head(sorted)) THEN <<x>> \o sorted
    ELSE <<Head(sorted)>> \o InsertSortedUnique(Tail(sorted), x)

\* sort.Strings, one insertion: x goes in front of the first greater name
RECURSIVE InsertSorted(_, _)
InsertSorted(sorted, x) ==
    IF sorted = <<>> THEN <<x>>
    ELSE IF StringLess(x, Head(sorted)) THEN <<x>> \o sorted
    ELSE <<Head(sorted)>> \o InsertSorted(Tail(sorted), x)

\* sort.Strings
RECURSIVE SortStrings(_)
SortStrings(list) ==
    IF list = <<>> THEN <<>>
    ELSE InsertSorted(SortStrings(SubSeq(list, 1, Len(list) - 1)), list[Len(list)])

\* the first part of CustomJson: each list is copied, the copy sorted, the
\* operation built from the copies and the key type chosen; requiredAuths and
\* requiredPostingAuths of the result are the caller's slices after the call
CustomJsonOperation(requiredAuths, requiredPostingAuths) ==
    LET sortedRequiredAuths == SortStrings(requiredAuths)
        sortedRequiredPostingAuths == SortStrings(requiredPostingAuths)
    IN [requiredAuths |-> requiredAuths,
        requiredPostingAuths |-> requiredPostingAuths,
        op |-> [type |-> "custom_json",
                RequiredAuths |-> sortedRequiredAuths,
                RequiredPostingAuths |-> sortedRequiredPostingAuths,
                ID |-> "follow", JSON |-> "{}"],
        keyType |-> IF Len(requiredAuths) > 0 THEN "active" ELSE "posting"]

\* the record of a CustomJson call: that of its Send, the lists the caller
\* passed and the caller's slices after the call
CustomJsonInput(sent, requiredAuths, requiredPostingAuths, after) ==
    [ops |-> sent.ops, keys |-> sent.keys, dgp |-> sent.dgp,
     blockRes |-> sent.blockRes, signRes |-> sent.signRes, build |-> sent.build,
     node |-> sent.node,
     requiredAuths |-> requiredAuths,
     requiredPostingAuths |-> requiredPostingAuths,
     after |-> after]

\* Broadcast.CustomJson (only the last-irreversible build has it)
CustomJsonCall(requiredAuths, requiredPostingAuths, privKeyWif, dgp, blockRes, signRes, build, node) ==
    /\ bc.op = "none"
    /\ policy = "lib"
    /\ LET cj == CustomJsonOperation(requiredAuths, requiredPostingAuths)
           privKeys == [k \in {cj.keyType} |-> privKeyWif]
       IN /\ bc' = Send("CustomJson", <<cj.op>>, privKeys, <<cj.keyType>>, dgp,
                        blockRes, signRes, build, node, now)
          /\ bcIn' = CustomJsonInput(
                         BcInput(<<cj.op>>, privKeys, dgp, blockRes, signRes,
                                 build, node),
                         requiredAuths, requiredPostingAuths,
                         [requiredAuths |-> cj.requiredAuths,
                          requiredPostingAuths |-> cj.requiredPostingAuths])
    /\ UNCHANGED <<policy, bc2, sessVars, gbVars, vlVars, scVars, ccVars>>

\* the expiration of the transaction NewSignedTransaction returns when the
\* caller set none: the library's affair, unset or a default of its own
ExpirationLeftToLibrary == {Unset, LibraryDefault}

\* Client.BroadcastRawOps
BroadcastRawOps(ops, priv, expiration, dgp, signRes, build, node, t) ==
    IF Len(ops) = 0
    THEN BcOutcome("BroadcastRawOps", "no operations submit", NoTx, NoTx, 0, t,
                   Effects(0, 0, 0, 0))
    ELSE IF dgp.err
    THEN BcOutcome("BroadcastRawOps", "failed to GetDynamicGlobalProperties",
                   NoTx, NoTx, 0, t, Effects(1, 0, 0, 0))
    ELSE
      LET refBlockPrefix == RefBlockPrefix(dgp.HeadBlockId) IN
      IF refBlockPrefix.err
      THEN BcOutcome("BroadcastRawOps", "ref block prefix", NoTx, NoTx, 0, t,
                     Effects(1, 0, 0, 0))
      ELSE
        LET tx0 == NewSignedTransaction(RefBlockNum(dgp.HeadBlockNumber),
                                        refBlockPrefix.prefix, expiration)
            tx == [tx0 EXCEPT !.Operations = PushOperations(@, ops)]
            signed == TxSign(tx, <<priv>>, signRes)
            fx == Effects(1, 0, 0, 1)
        IN IF signed.err
           THEN BcOutcome("BroadcastRawOps", "sign", tx, NoTx, 0, t, fx)
           ELSE IF Len(signed.tx.Signatures) # 1
           THEN BcOutcome("BroadcastRawOps",
                          "expected signatures not appended to the transaction",
                          tx, NoTx, 0, t, fx)
           ELSE LET result == BroadcastSync(build, node) IN
                BcOutcome("BroadcastRawOps", result.err, tx,
                          IF result.requests > 0 THEN signed.tx ELSE NoTx,
                          result.requests, t, fx)

\* a caller's Client.BroadcastRawOps
BroadcastRawOpsCall(ops, priv, dgp, signRes, build, node) ==
    /\ bc.op = "none"
    /\ \E expiration \in ExpirationLeftToLibrary :
        bc' = BroadcastRawOps(ops, priv, expiration, dgp, signRes, build, node, now)
    /\ bcIn' = BcInput(ops, [k \in {"priv"} |-> priv], dgp, NoAnswer, signRes, build,
                      node)
    /\ UNCHANGED <<policy, bc2, sessVars, gbVars, vlVars, scVars, ccVars>>

\* a caller's own BroadcastSync of a transaction it holds
BroadcastSyncCall(build, node) ==
    /\ bc.op = "none"
    /\ LET result == BroadcastSync(build, node) IN
       bc' = BcOutcome("BroadcastSync", result.err, NoTx, NoTx, result.requests,
                       now, Effects(0, 0, 0, 0))
    /\ bcIn' = BcInput(<<>>, <<>>, NoAnswer, NoAnswer, NoAnswer, build, node)
    /\ UNCHANGED <<policy, bc2, sessVars, gbVars, vlVars, scVars, ccVars>>

(***************************************************************************)
(* The signed envelope end to end: rpc.Sign on the calling side and        *)
(* rpc.Validate on the receiving side.                                     *)
(***************************************************************************)
\* key lists handed to Sign hold at most MaxKeys keys
MaxKeys == 2

\* "Signatures expire after 60 seconds"
SignatureWindow == 60

\* non-empty ordered lists of decodable WIF keys
ValidWifs == {ToWif(p) : p \in PrivateKeys}
KeyLists == UNION {[1..n -> ValidWifs] : n \in 1..MaxKeys}

\* the params as they travel inside the signed payload, and back
EncodeParams(params) == [encoded |-> params]
DecodeParams(encodedParams) == encodedParams.encoded

\* the message the signatures are made over
CanonicalMessage(method, params, account, timestamp, nonce) ==
    <<method, params, account, timestamp, nonce>>

\* the signed request rpc.Sign returns for a call
SignedRequest(request, signed) ==
    [Method |-> request.Method, ID |-> request.ID, Signed |-> signed]

NoRequest == [none |-> TRUE]
NoParams == [none |-> TRUE]

\* the result of rpc.Validate
Validated(e, params) == [err |-> e, params |-> params]
NotValidated == [none |-> TRUE]

\* variant of the expiry test that compares seconds with a window in
\* milliseconds
ExpiredInMillis(t, timestamp) == t - timestamp > SignatureWindow * 1000

\* "Signatures expire after 60 seconds"
Expired(t, timestamp) == t - timestamp > SignatureWindow

\* the caller-supplied verification function: it accepts signatures made
\* over the message it is given by keys it takes to be the account's
VerifyFunc(message, signatures, account, accepts) ==
    /\ accepts
    /\ \A k \in DOMAIN signatures : signatures[k].over = message

\* rpc.Validate(signedRequest, verifyFunc) at time t
Validate(signedRequest, accepts, t) ==
    LET signed == signedRequest.Signed IN
    IF Expired(t, signed.timestamp)
    THEN Validated("signature expired", NoParams)
    ELSE
      LET params == DecodeParams(signed.params)
          message == CanonicalMessage(signedRequest.Method, params, signed.account,
                                      signed.timestamp, signed.nonce)
      IN IF ~VerifyFunc(message, signed.signatures, signed.account, accepts)
         THEN Validated("invalid signature", NoParams)
         ELSE Validated(NoErr, params)

\* the record kept of an envelope: the request it was made for, the envelope,
\* whether it is as Sign made it, and what Validate answered when
Envelope(request, signedRequest, asSigned, accepts, result, at) ==
    [request |-> request, signedRequest |-> signedRequest, asSigned |-> asSigned,
     accepts |-> accepts, result |-> result, validatedAt |-> at]

NoEnvelope == Envelope(NoRequest, NoRequest, FALSE, FALSE, NotValidated, 0)

\* a long wait: the clock jumps by about the signature window
Elapse(d) ==
    /\ now <= MaxTime
    /\ now' = now + d
    /\ UNCHANGED <<url, AccountName, Wifs, gbVars, scVars, ccVars, bcVars, vlVars>>

\* a caller signs a request
SignEnvelope(method, params, account, privateKeys, nonce) ==
    /\ val.request = NoRequest
    /\ LET request == [Method |-> method, Params |-> params, ID |-> 1]
           signedRequest == Sign(request, account, privateKeys, now, nonce)
       IN /\ ~signedRequest.err
          /\ val' = Envelope(request, SignedRequest(request, signedRequest.Signed),
                             TRUE, FALSE, NotValidated, 0)
    /\ UNCHANGED <<sessVars, gbVars, scVars, ccVars, bcVars>>

\* the envelope is altered on the way: its timestamp is rewritten
RewriteTimestamp(timestamp) ==
    /\ val.request # NoRequest
    /\ val.result = NotValidated
    /\ val.asSigned
    /\ timestamp # val.signedRequest.Signed.timestamp
    /\ val' = [val EXCEPT !.signedRequest.Signed.timestamp = timestamp,
                          !.asSigned = FALSE]
    /\ UNCHANGED <<sessVars, gbVars, scVars, ccVars, bcVars>>

\* the receiving side validates the envelope
ValidateCall(accepts) ==
    /\ val.request # NoRequest
    /\ val.result = NotValidated
    /\ val' = [val EXCEPT !.accepts = accepts,
                          !.result = Validate(val.signedRequest, accepts, now),
                          !.validatedAt = now]
    /\ UNCHANGED <<sessVars, gbVars, scVars, ccVars, bcVars>>

(***************************************************************************)
(* Initial states and specifications.                                      *)
(***************************************************************************)
\* the block fetcher before any GetBlocks call
IdleBlocks ==
    /\ from = 0
    /\ to = 0
    /\ gbPc = "idle"
    /\ i = 0
    /\ ch = <<>>
    /\ chCap = 0
    /\ blocksMap = [b \in BlockNums |-> Nil]
    /\ blocks = <<>>
    /\ err = NoErr
    /\ taskPc = [b \in BlockNums |-> "none"]
    /\ attempts = [b \in BlockNums |-> 0]
    /\ taskErr = [b \in BlockNums |-> FALSE]
    /\ taskBlock = [b \in BlockNums |-> NilBlock]
    /\ recvOrder = <<>>

\* a Client of GetClient(url) and the API made from it: nothing imported,
\* nothing called
IdleSession ==
    /\ now = 0
    /\ Wifs = [k \in KeyTypeInputs |-> NoKey]
    /\ seqNo = NewAPISeqNo
    /\ calls = 0
    /\ clientIds = <<>>
    /\ last = NoOutcome
    /\ bc = NoBroadcast
    /\ bcIn = NoInput
    /\ bc2 = NoBroadcast
    /\ val = NoEnvelope

NoCallers == scPc = [p \in Callers |-> "idle"] /\ scTmp = [p \in Callers |-> 0]
                 /\ scId = [p \in Callers |-> NoId]

\* ---- the block fetcher
InitBlocks ==
    /\ mode \in Modes
    /\ maxRetry \in RetryChoices
    /\ IdleBlocks
    /\ IdleSession
    /\ NoCallers
    /\ url = "https://api.steemit.com"
    /\ AccountName = ""
    /\ policy = "head"

NextBlocks ==
    \/ \E f \in BlockNums, t \in BlockNums : GetBlocksCall(f, t)
    \/ SpawnLoop
    \/ RecvLoop
    \/ SortLoop
    \/ \E b \in BlockNums : TaskAttempt(b)
    \/ \E b \in BlockNums : TaskLoopExit(b)
    \/ \E b \in BlockNums : TaskSend(b)

SpecBlocks == InitBlocks /\ [][NextBlocks]_vars

\* ---- the block fetcher built with the unbounded wrapGetBlock of api.go,
\* under the Go scheduler: a goroutine that can run does run (the GetBlocks
\* caller and every wrapGetBlock goroutine keep taking their steps). Nothing
\* is assumed about the node: a request may fail every time.
InitUnbounded ==
    /\ mode = "unbounded"
    /\ maxRetry = DefaultMaxRetry
    /\ IdleBlocks
    /\ IdleSession
    /\ NoCallers
    /\ url = "https://api.steemit.com"
    /\ AccountName = ""
    /\ policy = "head"

NextUnbounded ==
    \/ \E f \in BlockNums, t \in BlockNums : GetBlocksCall(f, t)
    \/ SpawnLoop
    \/ RecvLoop
    \/ SortLoop
    \/ \E b \in BlockNums : TaskAttempt(b)
    \/ \E b \in BlockNums : TaskSend(b)

FairUnbounded ==
    /\ WF_vars(SpawnLoop)
    /\ WF_vars(RecvLoop)
    /\ WF_vars(SortLoop)
    /\ \A b \in BlockNums : WF_vars(TaskAttempt(b))
    /\ \A b \in BlockNums : WF_vars(TaskSend(b))

SpecUnbounded == InitUnbounded /\ [][NextUnbounded]_vars /\ FairUnbounded

\* ---- signed calls on one API instance, one at a time
InitSigned ==
    /\ url \in Urls
    /\ AccountName = ""
    /\ IdleSession
    /\ NoCallers
    /\ IdleBlocks
    /\ mode = "unbounded"
    /\ maxRetry = DefaultMaxRetry
    /\ policy = "head"

NextSigned ==
    \/ Tick
    \/ \E method \in Methods, params \in ParamLists, account \in {"alice"},
          privateKey \in {"5JwifA", "invalid-key"}, nonce \in Nonces,
          build \in BuildOutcomes, node \in NodeOutcomes :
            ApiSignedCall(method, params, account, privateKey, nonce, build, node)

SpecSigned == InitSigned /\ [][NextSigned]_vars

\* ---- signed calls through a Client
InitClient ==
    /\ url \in Urls
    /\ AccountName \in AccountNames
    /\ IdleSession
    /\ NoCallers
    /\ IdleBlocks
    /\ mode = "unbounded"
    /\ maxRetry = DefaultMaxRetry
    /\ policy = "head"

NextClient ==
    \/ \E keyType \in ImportKeyTypes, privWif \in WifInputs :
            ImportWif(keyType, privWif)
    \/ \E method \in Methods, params \in ParamLists, keyType \in KeyTypeInputs,
          nonce \in {"n1"}, build \in BuildOutcomes, node \in NodeOutcomes :
            ClientSignedCall(method, params, keyType, nonce, build, node)

SpecClient == InitClient /\ [][NextClient]_vars

\* ---- concurrent signed calls on one API instance
InitConc ==
    /\ url \in Urls
    /\ AccountName = ""
    /\ IdleSession
    /\ scPc = [p \in Callers |-> "start"]
    /\ scTmp = [p \in Callers |-> 0]
    /\ scId = [p \in Callers |-> NoId]
    /\ IdleBlocks
    /\ mode = "unbounded"
    /\ maxRetry = DefaultMaxRetry
    /\ policy = "head"

NextConc ==
    \/ \E p \in Callers : CallerStart(p)
    \/ \E p \in Callers : CallerLoad(p)
    \/ \E p \in Callers : CallerStore(p)
    \/ \E p \in Callers : CallerRequest(p)
    \/ \E p \in Callers : CallerFinish(p)

SpecConc == InitConc /\ [][NextConc]_vars

\* ---- transactions
InitBroadcast ==
    /\ policy \in Policies
    /\ url = "https://api.steemit.com"
    /\ AccountName = ""
    /\ IdleSession
    /\ NoCallers
    /\ IdleBlocks
    /\ mode = "unbounded"
    /\ maxRetry = DefaultMaxRetry

\* one broadcast operation is followed per behaviour, made at any time of
\* the clock: the operations share no state, so a second one would repeat the
\* first; only Send is made a second time, with the same arguments
NextBroadcast ==
    \/ bc.op = "none" /\ Tick
    \/ bc.op = "none" /\ \E ops \in OpLists, privKeys \in KeyMaps, dgp \in DgpResults,
          blockRes \in BlockResults, signRes \in SignOutcomes,
          build \in BuildOutcomes, node \in NodeOutcomes :
            \E order \in RangeOrders(privKeys) :
                SendCall(ops, privKeys, order, dgp, blockRes, signRes, build, node)
    \/ bc.op = "Send" /\ \E order \in RangeOrders(bcIn.keys) : SendAgainCall(order)
    \/ bc.op = "none" /\ \E operation \in Operations, privKeyWif \in WifInputs, dgp \in DgpResults,
          blockRes \in BlockResults, signRes \in SignOutcomes,
          build \in BuildOutcomes, node \in NodeOutcomes :
            SendWithCall(operation, privKeyWif, dgp, blockRes, signRes, build, node)
    \/ bc.op = "none" /\ policy = "lib" /\ \E requiredAuths \in AuthLists, requiredPostingAuths \in AuthLists,
          privKeyWif \in WifInputs, dgp \in DgpResults, blockRes \in BlockResults,
          signRes \in SignOutcomes, build \in BuildOutcomes, node \in NodeOutcomes :
            CustomJsonCall(requiredAuths, requiredPostingAuths, privKeyWif, dgp,
                           blockRes, signRes, build, node)
    \/ bc.op = "none" /\ \E ops \in OpLists, priv \in PrivateKeys, dgp \in DgpResults,
          signRes \in SignOutcomes, build \in BuildOutcomes, node \in NodeOutcomes :
            BroadcastRawOpsCall(ops, priv, dgp, signRes, build, node)
    \/ bc.op = "none" /\ \E build \in BuildOutcomes, node \in NodeOutcomes :
            BroadcastSyncCall(build, node)

SpecBroadcast == InitBroadcast /\ [][NextBroadcast]_vars

\* ---- signed envelopes, signed and then validated
InitValidate ==
    /\ url = "https://api.steemit.com"
    /\ AccountName = ""
    /\ IdleSession
    /\ NoCallers
    /\ IdleBlocks
    /\ mode = "unbounded"
    /\ maxRetry = DefaultMaxRetry
    /\ policy = "head"

NextValidate ==
    \/ Tick
    \/ \E d \in {SignatureWindow - 1, SignatureWindow, SignatureWindow + 1} : Elapse(d)
    \/ \E method \in Methods, params \in ParamLists, account \in {"alice"},
          privateKeys \in KeyLists, nonce \in Nonces :
            SignEnvelope(method, params, account, privateKeys, nonce)
    \/ \E timestamp \in 0..MaxTime : RewriteTimestamp(timestamp)
    \/ \E accepts \in BOOLEAN : ValidateCall(accepts)

SpecValidate == InitValidate /\ [][NextValidate]_vars

(***************************************************************************)
(* Properties of the block fetcher (checked under SpecBlocks).             *)
(***************************************************************************)
\* the goroutine of block b has reported failure (it sent nil)
TaskFailed(b) == mode = "bounded" /\ taskPc[b] = "done" /\ taskErr[b]

\* GetBlocks has returned to its caller, normally or with an error
Returned == gbPc = "returned"

\* C1: for from < to, when no fetch of the range has failed, GetBlocks does
\* not crash, and once it has returned it has returned without error exactly
\* to - from entries whose BlockNum values are from, from+1, ..., to-1 in
\* this order, whatever the order in which the results arrived.
C1_CompleteAscendingRange ==
    (from < to /\ \A b \in RangeOf(from, to) : ~TaskFailed(b)) =>
        /\ gbPc # "panicked"
        /\ Returned =>
            /\ err = NoErr
            /\ Len(blocks) = to - from
            /\ \A k \in 1..Len(blocks) :
                  blocks[k] # Nil /\ blocks[k].BlockNum = from + k - 1

\* witness of C1: a three-block range returned complete although the
\* results arrived in descending order
C1_Witness ==
    /\ Returned
    /\ to - from = 3
    /\ err = NoErr
    /\ Len(blocks) = 3
    /\ recvOrder = <<from + 2, from + 1, from>>

\* C2 (the claim as stated): in bounded-retry mode, once the fetch of some
\* block of the range has failed on all its attempts, GetBlocks does not
\* crash and, when it returns, returns an error and no blocks.
C2_FailedFetchFailsWholeRange ==
    (mode = "bounded" /\ from < to /\ \E b \in RangeOf(from, to) : TaskFailed(b)) =>
        /\ gbPc # "panicked"
        /\ Returned => (err # NoErr /\ blocks = <<>>)

\* C3: a call with from >= to returns at once with an error and no blocks;
\* it starts no fetch task, issues no GetBlock request and puts nothing on
\* a channel.
C3_InvalidRangeFailsFast ==
    (gbPc # "idle" /\ from >= to) =>
        /\ Returned
        /\ err # NoErr
        /\ blocks = <<>>
        /\ ch = <<>>
        /\ \A b \in BlockNums : taskPc[b] = "none" /\ attempts[b] = 0

\* witness of C3: a call with the empty range from = to > 0 has returned
C3_Witness ==
    /\ Returned
    /\ from = to
    /\ from > 0
    /\ err # NoErr


(***************************************************************************)
(* Properties of the signed-call path.                                     *)
(***************************************************************************)
HttpUrl == HasPrefix(url, "http://") \/ HasPrefix(url, "https://")

\* C4: on an API whose URL starts with neither "http://" nor "https://",
\* SignedCall fails with the transport error before any signature is computed
\* and before any request is sent; on a URL with one of the two prefixes the
\* transport check passes, so the call never ends with the transport error.
C4_TransportCheckFirst ==
    last.op = "SignedCall" =>
        IF ~HttpUrl
        THEN /\ last.err = ErrTransport
             /\ last.signs = 0
             /\ last.sends = 0
             /\ last.wire = NoWire
        ELSE last.err # ErrTransport

\* a SignedCall on a websocket endpoint has been refused
C4_Witness ==
    /\ last.op = "SignedCall"
    /\ url = "ws://api.steemit.com"
    /\ last.err = ErrTransport
    /\ last.signs = 0

\* C5 (as the code has it): every SignedCall that passes the transport check
\* increments seqNo by exactly one, whether it then fails at signing, building,
\* sending or with a node-reported error, or succeeds; a SignedCall refused by
\* the transport check leaves seqNo where it was.
C5_SeqNoCountsCallsPastTransportCheck ==
    seqNo = IF HttpUrl THEN NewAPISeqNo + calls ELSE NewAPISeqNo

\* two calls made, the second failed at the node, both counted
C5_Witness ==
    /\ calls = 2
    /\ seqNo = NewAPISeqNo + 2
    /\ last.err = "signed RPC error"

\* C5 (as stated): after n invocations seqNo is its initial value plus n,
\* whatever the stage an invocation failed at, the transport check included.
C5_SeqNoCountsEveryCall == seqNo = NewAPISeqNo + calls

\* C6: the request identifiers used by successive signed calls of one Client
\* are strictly increasing, so no two of them are equal.
C6_ClientIdsStrictlyIncreasing ==
    \A j, k \in 1..Len(clientIds) : j < k => clientIds[j] < clientIds[k]

\* C7: when all the concurrent SignedCall invocations on one API instance
\* have completed, seqNo is its initial value plus their number and the calls
\* used pairwise distinct request identifiers.
C7_ConcurrentIncrementsAtomic ==
    (\A p \in Callers : scPc[p] = "done") =>
        /\ seqNo = NewAPISeqNo + NumCallers
        /\ \A p, q \in Callers : p # q => scId[p] # scId[q]

\* C8 (as the code has it): the params list SignedCall sends holds exactly one
\* element, an object whose only key is "__signed", whose value is the signed
\* payload made from the caller's method and params; the caller's params are
\* not elements of the list.
C8_WireIsTheSignedObjectAlone ==
    (last.op = "SignedCall" /\ last.sends > 0) =>
        /\ Len(last.wire) = 1
        /\ DOMAIN last.wire[1] = {"__signed"}
        /\ last.wire[1]["__signed"].params = [encoded |-> last.params]

\* a call with two params went out as a one-element list
C8_Witness ==
    /\ last.op = "SignedCall"
    /\ last.sends > 0
    /\ Len(last.params) = 2
    /\ Len(last.wire) = 1

\* C8 (as stated): the list sent is the caller's params, unchanged and in
\* order, followed by one object whose only key is "__signed".
C8_WireIsParamsThenSignedObject ==
    (last.op = "SignedCall" /\ last.sends > 0) =>
        /\ Len(last.wire) = Len(last.params) + 1
        /\ SubSeq(last.wire, 1, Len(last.params)) = last.params
        /\ DOMAIN last.wire[Len(last.wire)] = {"__signed"}

(***************************************************************************)
(* Properties of the broadcast path.                                       *)
(***************************************************************************)
\* C9: a broadcast is never retried: each call of Send, SendWith, CustomJson,
\* BroadcastSync or Client.BroadcastRawOps sends at most one
\* broadcast_transaction_synchronous request, whatever its outcome.
C9_AtMostOneBroadcastRequest ==
    /\ bc.requests \in {0, 1}
    /\ bc.op = "none" => bc.requests = 0

\* a Send whose one request failed has returned
C9_Witness ==
    /\ bc.op = "Send"
    /\ bc.requests = 1
    /\ bc.err # NoErr

\* C10: every transaction handed to the signer or sent to the node carries
\* the expiration "assembly time plus 600 seconds"; none has it unset.
C10_ExpirationIsAssemblyPlusWindow ==
    /\ bc.signedTx # NoTx =>
          bc.signedTx.Expiration = TimeValue(bc.assembledAt + ExpirationWindow)
    /\ bc.sentTx # NoTx =>
          bc.sentTx.Expiration = TimeValue(bc.assembledAt + ExpirationWindow)

(***************************************************************************)
(* Properties of transaction assembly and signing.                         *)
(***************************************************************************)
\* the operations that assemble their transaction with prepareTransaction
ViaPrepare == bc.op \in {"Send", "SendWith", "CustomJson"}

\* C11: in every transaction prepareTransaction returns, refBlockNum and
\* refBlockPrefix come from one and the same reference block: under the head
\* policy block HeadBlockNumber with id HeadBlockId, under the
\* last-irreversible policy block LastIrreversibleBlockNum - 1, whose id is
\* the Previous field of block LastIrreversibleBlockNum; never another
\* block's id and never a placeholder id.
C11_RefBlockNumAndPrefixOfOneBlock ==
    (ViaPrepare /\ bc.signedTx # NoTx) =>
        IF policy = "head"
        THEN /\ bc.signedTx.RefBlockNum = RefBlockNum(bcIn.dgp.HeadBlockNumber)
             /\ bc.signedTx.RefBlockPrefix =
                    RefBlockPrefix(BlockId(bcIn.dgp.HeadBlockNumber)).prefix
             /\ bcIn.dgp.HeadBlockId = BlockId(bcIn.dgp.HeadBlockNumber)
        ELSE /\ bcIn.dgp.LastIrreversibleBlockNum >= 1
             /\ bc.signedTx.RefBlockNum =
                    RefBlockNum(bcIn.dgp.LastIrreversibleBlockNum - 1)
             /\ bc.signedTx.RefBlockPrefix =
                    RefBlockPrefix(BlockId(bcIn.dgp.LastIrreversibleBlockNum - 1)).prefix

\* C12: the operations of the transaction built by prepareTransaction and by
\* BroadcastRawOps are the caller's operation list: same length, same order,
\* duplicates kept, nothing reordered, dropped or added.
C12_OperationsAreTheCallersList ==
    /\ bc.signedTx # NoTx => bc.signedTx.Operations = bcIn.ops
    /\ bc.sentTx # NoTx => bc.sentTx.Operations = bcIn.ops

\* a Send of two different operations, transfer before vote, went out
C12_Witness ==
    /\ bc.op = "Send"
    /\ bcIn.ops = <<[type |-> "transfer"], [type |-> "vote"]>>
    /\ bc.sentTx # NoTx
    /\ bc.sentTx.Operations[1] = [type |-> "transfer"]

\* C13: Send and BroadcastRawOps with an empty operation list fail with the
\* empty-operation-list error before any chain-property or block fetch, key
\* decoding, signing or broadcast.
C13_EmptyOperationListFailsFirst ==
    (bc.op \in {"Send", "BroadcastRawOps"} /\ bcIn.ops = <<>>) =>
        /\ bc.err = IF bc.op = "Send"
                    THEN "failed to prepare transaction: no operations provided"
                    ELSE "no operations submit"
        /\ bc.fx = Effects(0, 0, 0, 0)
        /\ bc.requests = 0
        /\ bc.signedTx = NoTx
        /\ bc.sentTx = NoTx

\* a Send with no operations and two named keys has failed
C13_Witness ==
    /\ bc.op = "Send"
    /\ bcIn.ops = <<>>
    /\ DOMAIN bcIn.keys = KeyNames
    /\ bc.err # NoErr

\* the keys behind the signatures of a transaction, in the order attached
Signers(tx) == [k \in 1..Len(tx.Signatures) |-> tx.Signatures[k].by]

\* C14: the order of the signatures Send attaches is a fixed function of the
\* keys supplied: two runs of Send with the same operations and the same named
\* keys sign with the keys in the same order.
C14_SignatureOrderReproducible ==
    (bc.op = "Send" /\ bc2.op = "Send" /\ bc.sentTx # NoTx /\ bc2.sentTx # NoTx) =>
        Signers(bc.sentTx) = Signers(bc2.sentTx)

\* the distinct private keys the caller supplied to the operation
SuppliedKeys ==
    IF bc.op = "BroadcastRawOps" THEN {bcIn.keys[n] : n \in DOMAIN bcIn.keys}
    ELSE {FromWif(bcIn.keys[n]).priv : n \in DOMAIN bcIn.keys}

\* C15: the transaction that is broadcast carries exactly as many signatures
\* as there are distinct private keys supplied: one for SendWith and
\* BroadcastRawOps, and one, not two, for a key that Send is given under two
\* names.
C15_OneSignaturePerDistinctKey ==
    (bc.op \in {"Send", "SendWith", "CustomJson", "BroadcastRawOps"}
        /\ bc.sentTx # NoTx) =>
            Len(bc.sentTx.Signatures) = Cardinality(SuppliedKeys)

(***************************************************************************)
(* Properties of the key table and of the Client's signed calls.           *)
(***************************************************************************)
\* an ImportWif call has just returned
Imported == last'.op = "ImportWif"

\* C16: after any sequence of ImportWif calls the key table holds keys only
\* for roles among owner, active, posting and memo, one per role; a successful
\* import leaves under its role exactly the key imported (exporting it gives
\* back the imported WIF) and leaves every other role's entry unchanged.
C16_KeyTableHoldsLastImportPerRole ==
    [][/\ \A k \in KeyTypeInputs \ KeyTypes : Wifs'[k] = NoKey
       /\ (Imported /\ last'.err = NoErr) =>
            (/\ last'.arg.keyType \in KeyTypes
             /\ Wifs'[last'.arg.keyType] \in PrivateKeys
             /\ ToWif(Wifs'[last'.arg.keyType]) = last'.arg.privWif
             /\ \A k \in KeyTypeInputs \ {last'.arg.keyType} :
                    Wifs'[k] = Wifs[k])]_vars

\* the posting key was imported while the active role keeps another key
C16_Witness ==
    /\ last.op = "ImportWif"
    /\ last.err = NoErr
    /\ last.arg = Arg("posting", "5JwifB")
    /\ Wifs["posting"] = "keyB"
    /\ Wifs["active"] = "keyA"

\* C17: ImportWif with a role outside the four fails before any WIF parsing
\* is attempted; with a valid role and an undecodable WIF it fails with the
\* key-format error; in both cases the key table is left exactly as it was,
\* a key imported earlier for that role included.
C17_FailedImportLeavesTableAlone ==
    [][/\ (Imported /\ last'.arg.keyType \notin KeyTypes) =>
            (/\ last'.err = "unexpected keyType when import wif"
             /\ last'.wifParses = 0
             /\ Wifs' = Wifs)
       /\ (Imported /\ last'.arg.keyType \in KeyTypes
             /\ last'.arg.privWif \notin {ToWif(p) : p \in PrivateKeys}) =>
            (/\ last'.err = "invalid wif"
             /\ Wifs' = Wifs)]_vars

\* an undecodable WIF was refused for the active role, which keeps its key
C17_Witness ==
    /\ last.op = "ImportWif"
    /\ last.arg = Arg("active", "invalid-key")
    /\ last.err = "invalid wif"
    /\ Wifs["active"] = "keyA"

\* nothing was done for the call: no API instance used, nothing signed, no
\* request sent
NothingDone ==
    /\ ~last.apiCalled
    /\ last.signs = 0
    /\ last.sends = 0
    /\ last.wire = NoWire

\* C18: Client.SignedCall fails with "account name not set" when AccountName
\* is empty, otherwise with the invalid-key-type error when the role is
\* outside the four, otherwise with the key-not-found error when no key is
\* stored for the role, each time without using an API instance, signing or
\* sending; when the three checks pass, the key that signs is the one stored
\* for the requested role.
C18_ClientSignedCallChecksInOrder ==
    last.op = "Client.SignedCall" =>
        IF AccountName = ""
        THEN last.err = "account name not set" /\ NothingDone
        ELSE IF last.arg.keyType \notin KeyTypes
        THEN last.err = "invalid key type: " \o last.arg.keyType /\ NothingDone
        ELSE IF Wifs[last.arg.keyType] = NoKey
        THEN /\ last.err = "private key for type '" \o last.arg.keyType \o "' not found"
             /\ NothingDone
        ELSE /\ last.apiCalled
             /\ last.arg.privWif = ToWif(Wifs[last.arg.keyType])
             /\ (last.sends > 0 =>
                  last.wire[1]["__signed"].signatures[1].by = Wifs[last.arg.keyType])

\* with the active and posting keys stored, a call signed with the posting
\* key has been sent
C18_Witness ==
    /\ last.op = "Client.SignedCall"
    /\ last.arg.keyType = "posting"
    /\ Wifs["active"] = "keyA"
    /\ Wifs["posting"] = "keyB"
    /\ last.sends > 0

(***************************************************************************)
(* Properties of signed envelopes.                                         *)
(***************************************************************************)
\* Validate has answered for the envelope
WasValidated == val.result # NotValidated

\* seconds between the envelope's timestamp and its validation
Age == val.validatedAt - val.signedRequest.Signed.timestamp

C20_OldEnvelopeExpired ==
    (WasValidated /\ Age > SignatureWindow) =>
        /\ val.result.err = "signature expired"
        /\ val.result.params = NoParams

\* an envelope with good signatures, accepted by the verification function,
\* was refused 61 seconds after signing
C20_Witness ==
    /\ WasValidated
    /\ val.asSigned
    /\ val.accepts
    /\ Age = SignatureWindow + 1
    /\ val.result.err = "signature expired"


(***************************************************************************)
(* Termination and accounting of the block fetcher.                        *)
(***************************************************************************)
\* the goroutines GetBlocks has started so far
Started == {b \in BlockNums : taskPc[b] # "none"}

\* the goroutines that have sent their message and returned
Done == {b \in BlockNums : taskPc[b] = "done"}

\* a complete answer: no error and one entry per block of the range
CompleteRange == err = NoErr /\ Len(blocks) = to - from

Quiescent ==
    /\ ~ENABLED SpawnLoop
    /\ ~ENABLED RecvLoop
    /\ ~ENABLED SortLoop
    /\ \A b \in BlockNums : ~ENABLED TaskAttempt(b)
    /\ \A b \in BlockNums : ~ENABLED TaskLoopExit(b)
    /\ \A b \in BlockNums : ~ENABLED TaskSend(b)

\* C22 (the claim as stated): in bounded-retry mode a GetBlocks call comes
\* to rest only after it has returned (a result or an error) and every
\* goroutine it started has finished.
C22_BoundedCallTerminates ==
    (mode = "bounded" /\ gbPc # "idle" /\ Quiescent) =>
        /\ Returned
        /\ \A b \in Started : taskPc[b] = "done"

\* C23 (the claim as stated): in bounded-retry mode a goroutine makes at
\* most maxRetry requests, none after a successful one, and what it sends is
\* a WrapBlock exactly when one of its requests succeeded (nil otherwise).
C23_BoundedTaskReportsFaithfully ==
    mode = "bounded" =>
        \A b \in Started :
            /\ attempts[b] <= (IF maxRetry > 0 THEN maxRetry ELSE 0)
            /\ taskPc[b] = "loop" => taskBlock[b] = NilBlock
            /\ taskPc[b] \in {"send", "done"} =>
                  (TaskMessage(b) # Nil <=> taskBlock[b] = BlockOf(b))


\* the messages GetBlocks has taken off the channel: those it recorded and
\* the nil one whose dereference stopped it
Received == Len(recvOrder) + (IF gbPc = "panicked" THEN 1 ELSE 0)

\* C29: for from < to, GetBlocks starts one goroutine for each block number
\* of [from, to) and none outside it; the messages sent are one per finished
\* goroutine; the channel never holds more than to - from messages and a
\* goroutine ready to send always finds a free slot; a call that returns
\* without error has received exactly to - from messages.
C29_OneTaskOneMessagePerBlock ==
    from < to =>
        /\ Started \subseteq RangeOf(from, to)
        /\ gbPc = "spawn" => Started = RangeOf(from, i)
        /\ gbPc # "spawn" => Started = RangeOf(from, to)
        /\ Len(ch) + Received = Cardinality(Done)
        /\ Len(ch) <= to - from
        /\ \A b \in BlockNums : taskPc[b] = "send" => Len(ch) < chCap
        /\ (Returned /\ err = NoErr) => (Received = to - from /\ ch = <<>>)

\* witness of C29: all three goroutines of a three-block range have sent
\* before GetBlocks received anything, and the channel is full
C29_Witness ==
    /\ to - from = 3
    /\ gbPc = "recv"
    /\ Len(ch) = 3
    /\ Done = RangeOf(from, to)
    /\ recvOrder = <<>>

(***************************************************************************)
(* Failure policy and step order of the broadcast path.                    *)
(***************************************************************************)
\* the reference block of the call could not be obtained: the block request
\* failed, or the node answered with no block or one without a previous id
NoReferenceBlock ==
    /\ policy = "lib"
    /\ ~bcIn.dgp.err
    /\ LET block == GetBlock(bcIn.dgp.LastIrreversibleBlockNum, bcIn.blockRes)
       IN block.err \/ block.Previous = EmptyId

\* the operation stopped in prepareTransaction
AbortedInPrepare ==
    /\ HasPrefix(bc.err, "failed to prepare transaction: ")
    /\ bc.signedTx = NoTx
    /\ bc.sentTx = NoTx
    /\ bc.fx.decodes = 0
    /\ bc.fx.signs = 0
    /\ bc.requests = 0

\* C24 (the claim as stated): prepareTransaction fetches the chain properties
\* and the reference block at most once each per call, and whenever the
\* chain-property fetch fails or the reference block cannot be obtained it
\* returns an error and no transaction.
C24_FetchFailureAbortsAssembly ==
    (ViaPrepare /\ bcIn.ops # <<>>) =>
        /\ bc.fx.dgpFetches <= 1
        /\ bc.fx.blockFetches <= 1
        /\ (bcIn.dgp.err \/ NoReferenceBlock) => AbortedInPrepare

\* prepareTransaction as the operation ran it, on the recorded arguments
PrepareOf ==
    prepareTransaction(policy, bcIn.ops, bcIn.dgp, bcIn.blockRes, bc.assembledAt)

\* every WIF of the key map decodes
AllKeysDecode == \A n \in DOMAIN bcIn.keys : ~FromWif(bcIn.keys[n]).err

\* C25: Send (also through SendWith and CustomJson) prepares, decodes the
\* keys, signs and broadcasts in this order: keys are decoded only after the
\* transaction was assembled, tx.Sign is called only after every supplied WIF
\* was decoded, and a broadcast request is sent only after signing succeeded;
\* when assembly, a decoding or signing fails the call returns an error and
\* no broadcast request is sent.
C25_BroadcastOnlyAfterPrepareDecodeSign ==
    ViaPrepare =>
        /\ bc.fx.decodes > 0 => PrepareOf.err = NoErr
        /\ bc.fx.signs > 0 =>
              /\ AllKeysDecode
              /\ bc.fx.decodes = Cardinality(DOMAIN bcIn.keys)
              /\ bc.signedTx = PrepareOf.tx
        /\ bc.requests > 0 =>
              /\ bc.fx.signs = 1
              /\ bcIn.signRes = "ok"
              /\ bc.sentTx # NoTx
              /\ Len(bc.sentTx.Signatures) = Cardinality(DOMAIN bcIn.keys)
        /\ (PrepareOf.err # NoErr \/ ~AllKeysDecode \/ bcIn.signRes = "sign_error") =>
              /\ bc.err # NoErr
              /\ bc.requests = 0
              /\ bc.sentTx = NoTx

\* witness of C25: a Send with two keys that both decoded failed at signing
\* and sent nothing
C25_Witness ==
    /\ bc.op = "Send"
    /\ DOMAIN bcIn.keys = KeyNames
    /\ bc.fx.decodes = 2
    /\ bc.fx.signs = 1
    /\ bc.err = "failed to sign transaction"
    /\ bc.requests = 0

(***************************************************************************)
(* Step order of API.SignedCall.                                           *)
(***************************************************************************)
\* the private key handed to the last SignedCall cannot be decoded
KeyUndecodable == FromWif(last.arg.privWif).err

\* C26: API.SignedCall sends a request only after the transport check passed
\* and signing succeeded: on an HTTP(S) URL with a private key that cannot be
\* decoded it returns the signing error, not the transport error, no
\* response, and sends nothing.
C26_RequestOnlyAfterTransportCheckAndSigning ==
    last.op = "SignedCall" =>
        /\ last.sends > 0 => (HttpUrl /\ last.signs = 1 /\ ~KeyUndecodable)
        /\ (HttpUrl /\ KeyUndecodable) =>
              /\ last.err = "failed to sign request"
              /\ last.err # ErrTransport
              /\ last.signs = 1
              /\ last.sends = 0
              /\ last.wire = NoWire

\* witness of C26: a SignedCall on an https endpoint with the key
\* "invalid-key" has failed at signing
C26_Witness ==
    /\ last.op = "SignedCall"
    /\ url = "https://api.steemit.com"
    /\ last.arg.privWif = "invalid-key"
    /\ last.err = "failed to sign request"
    /\ last.sends = 0

(***************************************************************************)
(* Keys and reference block number of a broadcast.                         *)
(***************************************************************************)
\* C27 (the claim as stated): Send with a non-empty operation list and an
\* empty key map fails, nothing is broadcast, and no transaction that is
\* broadcast is without a signature.
C27_EmptyKeyMapFails ==
    /\ (bc.op = "Send" /\ bcIn.ops # <<>> /\ DOMAIN bcIn.keys = {}) =>
          (bc.err # NoErr /\ bc.requests = 0 /\ bc.sentTx = NoTx)
    /\ (bc.op = "Send" /\ bc.sentTx # NoTx) => Len(bc.sentTx.Signatures) > 0

\* the number of the reference block the policy names
ReferenceBlockNumber ==
    IF policy = "head" THEN bcIn.dgp.HeadBlockNumber
    ELSE bcIn.dgp.LastIrreversibleBlockNum - 1

\* C28 (the claim as stated): the refBlockNum of every transaction
\* prepareTransaction returns is a value in 0..65535, the low 16 bits of the
\* reference block number (HeadBlockNumber under the head policy,
\* LastIrreversibleBlockNum - 1 under the last-irreversible policy), and that
\* reference block number is the number of a block of the chain, not the
\* result of a subtraction that wrapped around.
C28_RefBlockNumLow16Bits ==
    (ViaPrepare /\ bc.signedTx # NoTx) =>
        /\ bc.signedTx.RefBlockNum \in 0..65535
        /\ bc.signedTx.RefBlockNum = ReferenceBlockNumber % 65536
        /\ ReferenceBlockNumber \in 0..bcIn.dgp.HeadBlockNumber

(***************************************************************************)
(* The operation CustomJson builds.                                        *)
(***************************************************************************)
\* no name of the list stands before a smaller one
Ascending(list) ==
    \A j, k \in 1..Len(list) : j < k => ~StringLess(list[k], list[j])

\* how often a name occurs in a list
Occurrences(list, a) == Cardinality({k \in 1..Len(list) : list[k] = a})

\* sorted is list put in ascending order: same names, same multiplicities
SortedFrom(sorted, list) ==
    /\ Ascending(sorted)
    /\ \A a \in Accounts : Occurrences(sorted, a) = Occurrences(list, a)

\* C30: CustomJson submits one custom_json operation whose required_auths
\* and required_posting_auths are the caller's lists in ascending order with
\* the same elements and multiplicities (a list already ascending is taken as
\* it is), leaves the caller's slices as they were, and supplies the private
\* key under the name "active" if requiredAuths is non-empty and under
\* "posting" otherwise.
C30_CustomJsonSortsCopiesAndPicksRole ==
    bc.op = "CustomJson" =>
        /\ Len(bcIn.ops) = 1
        /\ bcIn.ops[1].type = "custom_json"
        /\ SortedFrom(bcIn.ops[1].RequiredAuths, bcIn.requiredAuths)
        /\ SortedFrom(bcIn.ops[1].RequiredPostingAuths, bcIn.requiredPostingAuths)
        /\ Ascending(bcIn.requiredAuths) =>
              bcIn.ops[1].RequiredAuths = bcIn.requiredAuths
        /\ Ascending(bcIn.requiredPostingAuths) =>
              bcIn.ops[1].RequiredPostingAuths = bcIn.requiredPostingAuths
        /\ bcIn.after.requiredAuths = bcIn.requiredAuths
        /\ bcIn.after.requiredPostingAuths = bcIn.requiredPostingAuths
        /\ DOMAIN bcIn.keys =
              {IF bcIn.requiredAuths # <<>> THEN "active" ELSE "posting"}
        /\ bc.sentTx # NoTx => bc.sentTx.Operations = bcIn.ops

\* witness of C30: a CustomJson given <<"bob", "alice">> as requiredAuths and
\* "alice" twice as requiredPostingAuths went out under the active key
C30_Witness ==
    /\ bc.op = "CustomJson"
    /\ bcIn.requiredAuths = <<"bob", "alice">>
    /\ bcIn.requiredPostingAuths = <<"alice", "alice">>
    /\ bcIn.ops[1].RequiredAuths = <<"alice", "bob">>
    /\ DOMAIN bcIn.keys = {"active"}
    /\ bc.sentTx # NoTx
====
